---- MODULE Spec2Model ----
(***************************************************************************)
(* Model of use_model.py: the command-line wrapper that loads a causal     *)
(* language model, formats prompts in ChatML and either answers a single   *)
(* prompt or drives an interactive chat loop.                              *)
(*                                                                         *)
(* Text is modelled as a sequence of atoms.  Every atom is a fixed piece   *)
(* of text; the atoms are chosen so that the strings the program searches  *)
(* for ("<|im_start|>assistant\n", "<|im_end|>", "<|im_end|") can start    *)
(* only at an atom boundary: "<" occurs only as the first character of     *)
(* the atoms IM_START and IM_END_OPEN.  Searching, splitting, stripping    *)
(* and concatenating atom sequences is therefore the same as doing it on   *)
(* the characters.                                                         *)
(***************************************************************************)
EXTENDS Integers, Sequences, FiniteSets, TLC

VARIABLES
    pc,                    \* position of the program
    args,                  \* parsed command line: prompt, interactive
    mode,                  \* generation mode entered by main
    conversation_history,  \* interactive_chat's list of turns
    user_input,            \* interactive_chat: stripped line last read
    full_prompt,           \* interactive_chat: rendered conversation
    formatted_prompt,      \* generate_response: text handed to the tokenizer
    decoded,               \* generate_response: text returned by tokenizer.decode
    response,              \* value returned by the last generate_response
    out,                   \* last message printed
    event,                 \* last thing the environment did to the program
    loads,                 \* number of load_model calls
    genCalls               \* number of generate_response calls

vars == <<pc, args, mode, conversation_history, user_input, full_prompt,
          formatted_prompt, decoded, response, out, event, loads, genCalls>>

(***************************************************************************)
(* Bounds                                                                  *)
(***************************************************************************)
MaxCalls == 3      \* generate_response calls per run
MaxBody == 4       \* atoms of free text in a decoded text of SpecExtract

(***************************************************************************)
(* Text                                                                    *)
(***************************************************************************)
IM_START == "<|im_start|>"
IM_END_OPEN == "<|im_end|"
GT == ">"
NL == "\n"
SP == " "

Whitespace == {SP, NL}

AssistantStart == <<IM_START, "assistant", NL>>
UserStart == <<IM_START, "user", NL>>
EndMarker == <<IM_END_OPEN, GT>>
SplitSeparator == <<IM_END_OPEN>>

None == [isNone |-> TRUE, text |-> <<>>]
Str(t) == [isNone |-> FALSE, text |-> t]
\* Python truth value of an Optional[str]
Truthy(r) == ~r.isNone /\ r.text # <<>>

Min(S) == CHOOSE x \in S : \A y \in S : x <= y
Max(S) == CHOOSE x \in S : \A y \in S : x >= y

\* positions at which m occurs in s
Occurrences(s, m) ==
    {i \in 1..Len(s) : i + Len(m) - 1 <= Len(s) /\ SubSeq(s, i, i + Len(m) - 1) = m}

\* Python: m in s
Contains(s, m) == Occurrences(s, m) # {}

\* Python: s.split(sep)[0], the text before the first occurrence of sep
SplitFirst(s, sep) ==
    IF Contains(s, sep) THEN SubSeq(s, 1, Min(Occurrences(s, sep)) - 1) ELSE s

\* Python: s.split(sep)[-1], the last piece of a left-to-right split
RECURSIVE SplitLast(_, _)
SplitLast(s, sep) ==
    IF Contains(s, sep)
    THEN SplitLast(SubSeq(s, Min(Occurrences(s, sep)) + Len(sep), Len(s)), sep)
    ELSE s

\* strip() left out: the text as it was read
Strip_Identity(s) == s

\* Python: s.strip()
Strip(s) ==
    LET keep == {i \in 1..Len(s) : s[i] \notin Whitespace}
    IN  IF keep = {} THEN <<>> ELSE SubSeq(s, Min(keep), Max(keep))

LowerAtom(a) ==
    CASE a = "QUIT" -> "quit"
      [] a = "Clear" -> "clear"
      [] OTHER -> a

\* Python: s.lower()
Lower(s) == [i \in 1..Len(s) |-> LowerAtom(s[i])]

(***************************************************************************)
(* generate_response                                                       *)
(***************************************************************************)
\* the ChatML wrapping generate_response applies to whatever prompt it gets
FormatPrompt(prompt) ==
    UserStart \o prompt \o EndMarker \o <<NL>> \o AssistantStart

\* ExtractResponse with the end-marker test made on "<|im_end|" as the split is
ExtractResponse_OpenTest(raw) ==
    LET r1 == IF Contains(raw, AssistantStart) THEN SplitLast(raw, AssistantStart) ELSE raw
        r2 == IF Contains(r1, SplitSeparator) THEN SplitFirst(r1, SplitSeparator) ELSE r1
    IN  Strip(r2)

\* ExtractResponse without the cut at the end marker
ExtractResponse_NoCut(raw) ==
    LET r1 == IF Contains(raw, AssistantStart) THEN SplitLast(raw, AssistantStart) ELSE raw
    IN  Strip(r1)

\* the extraction step applied to the decoded text
ExtractResponse(raw) ==
    LET r1 == IF Contains(raw, AssistantStart) THEN SplitLast(raw, AssistantStart) ELSE raw
        r2 == IF Contains(r1, EndMarker) THEN SplitFirst(r1, SplitSeparator) ELSE r1
    IN  Strip(r2)

(***************************************************************************)
(* interactive_chat                                                        *)
(***************************************************************************)
Turn(role, content) == [role |-> role, content |-> content]

\* RenderTurn leaving the turns without their end marker
RenderTurn_Unclosed(msg) ==
    IF msg.role = "user"
    THEN UserStart \o msg.content \o <<NL>>
    ELSE AssistantStart \o msg.content \o <<NL>>

RenderTurn(msg) ==
    IF msg.role = "user"
    THEN UserStart \o msg.content \o EndMarker \o <<NL>>
    ELSE AssistantStart \o msg.content \o EndMarker \o <<NL>>

RECURSIVE RenderHistory(_)
RenderHistory(history) ==
    IF history = <<>> THEN <<>>
    ELSE RenderHistory(SubSeq(history, 1, Len(history) - 1)) \o RenderTurn(history[Len(history)])

\* full_prompt as built by the loop body
RenderPrompt(history, input) ==
    RenderHistory(history) \o UserStart \o input \o EndMarker \o <<NL>> \o AssistantStart

\* HandleResponse recording the user turn before the outcome is known
HandleResponse_UserFirst(history, input, resp) ==
    IF Truthy(resp)
    THEN history \o <<Turn("user", input), Turn("assistant", resp.text)>>
    ELSE history \o <<Turn("user", input)>>

\* HandleResponse appending the two turns in the wrong order
HandleResponse_Swapped(history, input, resp) ==
    IF Truthy(resp)
    THEN history \o <<Turn("assistant", resp.text), Turn("user", input)>>
    ELSE history

\* HandleResponse rebinding the list to the last exchange instead of appending
HandleResponse_Truncating(history, input, resp) ==
    IF Truthy(resp)
    THEN <<Turn("user", input), Turn("assistant", resp.text)>>
    ELSE history

\* the history after generate_response returned resp for input
HandleResponse(history, input, resp) ==
    IF Truthy(resp)
    THEN history \o <<Turn("user", input), Turn("assistant", resp.text)>>
    ELSE history

\* the clear command forgetting to reset the list
ClearHistory_Keep(history) == history

\* the clear command's assignment to the history
ClearHistory(history) == <<>>

Message(kind, text) == [kind |-> kind, text |-> text]

(***************************************************************************)
(* Inputs of the environment                                               *)
(***************************************************************************)
ArgSets ==
    [prompt : {None, Str(<<>>), Str(<<"hi">>)}, interactive : BOOLEAN]

\* lines the console read can return (a line holds no newline)
InputLines ==
    { <<"quit">>, <<SP, "QUIT">>, <<"clear">>, <<"Clear", SP>>, <<>>, <<SP>>,
      <<"hi">>, <<SP, "a", IM_END_OPEN, GT, SP>> }

\* texts the model can produce after the prompt
Completions ==
    { <<"hello">>,
      <<SP, "ok", IM_END_OPEN, GT, NL>>,
      <<>>,
      <<NL, SP>>,
      AssistantStart \o <<"ok">>,
      <<"hello", IM_END_OPEN, "b", IM_END_OPEN, GT>> }

(***************************************************************************)
(* The program                                                             *)
(***************************************************************************)
Init ==
    /\ pc = "main"
    /\ args \in ArgSets
    /\ mode = "none"
    /\ conversation_history = <<>>
    /\ user_input = <<>>
    /\ full_prompt = <<>>
    /\ formatted_prompt = <<>>
    /\ decoded = <<>>
    /\ response = None
    /\ out = Message("none", <<>>)
    /\ event = "start"
    /\ loads = 0
    /\ genCalls = 0

\* entry into generate_response: the prompt is wrapped and tokenized
CallGenerate(prompt) ==
    /\ formatted_prompt' = FormatPrompt(prompt)
    /\ genCalls' = genCalls + 1
    /\ pc' = "Generating"

\* Dispatch entering the chat loop whenever there is no prompt
Dispatch_DefaultInteractive ==
    IF Truthy(args.prompt)
    THEN /\ mode' = "single"
         /\ CallGenerate(args.prompt.text)
         /\ out' = Message("prompt", args.prompt.text)
    ELSE /\ mode' = "interactive"
         /\ pc' = "AwaitingInput"
         /\ out' = Message("banner", <<>>)
         /\ UNCHANGED <<formatted_prompt, genCalls>>

\* main after a successful load
Dispatch ==
    IF Truthy(args.prompt)
    THEN /\ mode' = "single"
         /\ CallGenerate(args.prompt.text)
         /\ out' = Message("prompt", args.prompt.text)
    ELSE IF args.interactive
    THEN /\ mode' = "interactive"
         /\ pc' = "AwaitingInput"
         /\ out' = Message("banner", <<>>)
         /\ UNCHANGED <<formatted_prompt, genCalls>>
    ELSE /\ pc' = "Terminated"
         /\ out' = Message("usage", <<>>)
         /\ UNCHANGED <<mode, formatted_prompt, genCalls>>

\* LoadModel without main's test of the returned handles
LoadModel_NoCheck(ok) ==
    /\ pc = "main"
    /\ loads' = loads + 1
    /\ event' = IF ok THEN "load_ok" ELSE "load_fail"
    /\ Dispatch
    /\ UNCHANGED <<args, conversation_history, user_input, full_prompt, decoded, response>>

\* main: load_model returns, then main goes on
LoadModel(ok) ==
    /\ pc = "main"
    /\ loads' = loads + 1
    /\ event' = IF ok THEN "load_ok" ELSE "load_fail"
    /\ IF ok
       THEN Dispatch
       ELSE /\ pc' = "Terminated"
            /\ out' = Message("load_error", <<>>)
            /\ UNCHANGED <<mode, formatted_prompt, genCalls>>
    /\ UNCHANGED <<args, conversation_history, user_input, full_prompt, decoded, response>>

\* AfterGenerate leaving the loop when no response came back
AfterGenerate_Exit(resp) ==
    /\ response' = resp
    /\ pc' = IF mode = "single" \/ ~Truthy(resp) THEN "Terminated" ELSE "AwaitingInput"
    /\ out' = IF Truthy(resp) THEN Message("assistant", resp.text)
                              ELSE Message("failed", <<>>)
    /\ conversation_history' =
           IF mode = "single" THEN conversation_history
           ELSE HandleResponse(conversation_history, user_input, resp)

\* the caller's code after generate_response returned resp
AfterGenerate(resp) ==
    /\ response' = resp
    /\ IF mode = "single"
       THEN /\ pc' = "Terminated"
            /\ out' = IF Truthy(resp) THEN Message("response", resp.text)
                                      ELSE Message("failed", <<>>)
            /\ UNCHANGED conversation_history
       ELSE /\ pc' = "AwaitingInput"
            /\ out' = IF Truthy(resp) THEN Message("assistant", resp.text)
                                      ELSE Message("failed", <<>>)
            /\ conversation_history' = HandleResponse(conversation_history, user_input, resp)

\* the model generates, the tokenizer decodes, generate_response returns
GenerateReturn(completion, echo) ==
    /\ pc = "Generating"
    /\ event' = "gen_return"
    /\ decoded' = IF echo THEN formatted_prompt \o completion ELSE completion
    /\ AfterGenerate(Str(ExtractResponse(decoded')))
    /\ UNCHANGED <<args, mode, user_input, full_prompt, formatted_prompt, loads, genCalls>>

\* an Exception inside generate_response: it prints and returns None
GenerateRaise ==
    /\ pc = "Generating"
    /\ event' = "gen_raise"
    /\ AfterGenerate(None)
    /\ UNCHANGED <<args, mode, user_input, full_prompt, formatted_prompt, decoded, loads, genCalls>>

\* one loop iteration from the console read to the generate_response call
ReadLine(line) ==
    /\ pc = "AwaitingInput"
    /\ event' = "line"
    /\ user_input' = Strip(line)
    /\ IF Lower(user_input') = <<"quit">>
       THEN /\ pc' = "Terminated"
            /\ out' = Message("goodbye", <<>>)
            /\ UNCHANGED <<conversation_history, full_prompt, formatted_prompt, genCalls>>
       ELSE IF Lower(user_input') = <<"clear">>
       THEN /\ conversation_history' = ClearHistory(conversation_history)
            /\ out' = Message("cleared", <<>>)
            /\ UNCHANGED <<pc, full_prompt, formatted_prompt, genCalls>>
       ELSE IF user_input' = <<>>
       THEN UNCHANGED <<pc, out, conversation_history, full_prompt, formatted_prompt, genCalls>>
       ELSE /\ genCalls < MaxCalls
            /\ full_prompt' = RenderPrompt(conversation_history, user_input')
            /\ out' = Message("thinking", <<>>)
            /\ CallGenerate(full_prompt')
            /\ UNCHANGED conversation_history
    /\ UNCHANGED <<args, mode, decoded, response, loads>>

\* ReadEOF with the end of input ending the loop
ReadEOF_Exit ==
    /\ pc = "AwaitingInput"
    /\ event' = "eof"
    /\ pc' = "Terminated"
    /\ out' = Message("error", <<>>)
    /\ UNCHANGED <<args, mode, conversation_history, user_input, full_prompt,
                   formatted_prompt, decoded, response, loads, genCalls>>

\* the console read raises EOFError: caught by the loop's except Exception
ReadEOF ==
    /\ pc = "AwaitingInput"
    /\ event' = "eof"
    /\ out' = Message("error", <<>>)
    /\ UNCHANGED <<pc, args, mode, conversation_history, user_input, full_prompt,
                   formatted_prompt, decoded, response, loads, genCalls>>

\* Interrupt with generate_response catching everything (a bare except)
Interrupt_Swallowed ==
    /\ pc # "Terminated"
    /\ event' = "interrupt"
    /\ IF pc = "Generating"
       THEN AfterGenerate(None)
       ELSE /\ pc' = "Terminated"
            /\ out' = IF mode = "interactive" THEN Message("goodbye", <<>>)
                                              ELSE Message("traceback", <<>>)
            /\ UNCHANGED <<conversation_history, response>>
    /\ UNCHANGED <<args, mode, user_input, full_prompt,
                   formatted_prompt, decoded, loads, genCalls>>

\* KeyboardInterrupt: the loop's handler says goodbye and breaks; outside the
\* loop nothing catches it and the process ends with a traceback
Interrupt ==
    /\ pc # "Terminated"
    /\ event' = "interrupt"
    /\ pc' = "Terminated"
    /\ out' = IF mode = "interactive" THEN Message("goodbye", <<>>)
                                      ELSE Message("traceback", <<>>)
    /\ UNCHANGED <<args, mode, conversation_history, user_input, full_prompt,
                   formatted_prompt, decoded, response, loads, genCalls>>

Next ==
    \/ \E ok \in BOOLEAN : LoadModel(ok)
    \/ \E line \in InputLines : ReadLine(line)
    \/ ReadEOF
    \/ \E c \in Completions, echo \in BOOLEAN : GenerateReturn(c, echo)
    \/ GenerateRaise
    \/ Interrupt

Spec == Init /\ [][Next]_vars

(***************************************************************************)
(* The extraction step of generate_response on its own: the decoded text   *)
(* is any text of DecodedTexts.                                            *)
(***************************************************************************)
ExtractAlphabet == {IM_START, "assistant", NL, IM_END_OPEN, GT, SP, "A"}

BodyTexts == UNION {[1..n -> ExtractAlphabet] : n \in 0..MaxBody}

Prefixes == {<<>>, AssistantStart, <<"A">> \o AssistantStart}

HelloThere == <<"...">> \o AssistantStart \o <<"Hello", SP, "there">> \o EndMarker

DecodedTexts == {p \o b : p \in Prefixes, b \in BodyTexts} \cup {HelloThere}

ExtractInit ==
    /\ pc = "Decoded"
    /\ args = [prompt |-> Str(<<"hi">>), interactive |-> FALSE]
    /\ mode = "single"
    /\ conversation_history = <<>>
    /\ user_input = <<>>
    /\ full_prompt = <<>>
    /\ formatted_prompt = FormatPrompt(<<"hi">>)
    /\ decoded \in DecodedTexts
    /\ response = None
    /\ out = Message("prompt", <<"hi">>)
    /\ event = "load_ok"
    /\ loads = 1
    /\ genCalls = 1

ExtractStep ==
    /\ pc = "Decoded"
    /\ response' = Str(ExtractResponse(decoded))
    /\ pc' = "Extracted"
    /\ UNCHANGED <<args, mode, conversation_history, user_input, full_prompt,
                   formatted_prompt, decoded, out, event, loads, genCalls>>

SpecExtract == ExtractInit /\ [][ExtractStep]_vars

(***************************************************************************)
(* Properties                                                              *)
(***************************************************************************)
\* a turn wrapped in the chat markup, as the specification words it
Wrapped(role, content) == <<IM_START, role, NL>> \o content \o <<IM_END_OPEN, GT, NL>>

RECURSIVE WrappedTurns(_)
WrappedTurns(H) ==
    IF H = <<>> THEN <<>>
    ELSE Wrapped(Head(H).role, Head(H).content) \o WrappedTurns(Tail(H))

\* the prompt for conversation H and new user message u
ExpectedPrompt(H, u) == WrappedTurns(H) \o Wrapped("user", u) \o <<IM_START, "assistant", NL>>

\* r is t without its leading and trailing whitespace
IsTrimOf(r, t) ==
    \E i \in 1..(Len(t) + 1) : \E j \in 0..Len(t) :
        /\ r = SubSeq(t, i, j)
        /\ \A k \in 1..Len(t) : (k < i \/ k > j) => t[k] \in Whitespace
        /\ r # <<>> => (r[1] \notin Whitespace /\ r[Len(r)] \notin Whitespace)

\* a generate call of the interactive loop fails
FailedTurn == pc = "Generating" /\ mode = "interactive" /\ event' = "gen_raise"

\* C1 as stated: when the generate call of an interactive turn fails, the
\* controller is back in AwaitingInput and the Conversation is the one before
\* the turn with one user Turn (the input) appended and no assistant Turn.
C1_Original ==
    [][FailedTurn =>
          /\ pc' = "AwaitingInput"
          /\ conversation_history' =
                 Append(conversation_history, Turn("user", user_input))]_vars

\* C1 amended: when the generate call of an interactive turn fails, the
\* controller is back in AwaitingInput and the Conversation is exactly the one
\* before the turn: neither a user Turn nor an assistant Turn is appended.
C1_Theorem ==
    [][FailedTurn =>
          /\ pc' = "AwaitingInput"
          /\ conversation_history' = conversation_history]_vars

C1_Witness ==
    /\ event = "gen_raise"
    /\ mode = "interactive"
    /\ pc = "AwaitingInput"
    /\ Len(conversation_history) = 2
    /\ user_input # <<>>

\* C2: in interactive mode the text handed to the tokenizer is each Turn of
\* the Conversation wrapped in order, then the new user message wrapped, then
\* the open assistant marker and nothing else; for the empty Conversation and
\* "hi" it is the wrapped "hi" followed by the open assistant marker.
C2_Claim ==
    (pc = "Generating" /\ mode = "interactive") =>
        /\ formatted_prompt = ExpectedPrompt(conversation_history, user_input)
        /\ (conversation_history = <<>> /\ user_input = <<"hi">>) =>
               formatted_prompt = <<IM_START, "user", NL, "hi", IM_END_OPEN, GT, NL,
                                    IM_START, "assistant", NL>>

NoAssistantStart(t) == ~Contains(t, <<IM_START, "assistant", NL>>)
NoEndMarker(t) == ~Contains(t, <<IM_END_OPEN, GT>>)

\* C3 as stated: for a decoded text without the assistant-start marker the
\* extraction returns the text with only its leading and trailing whitespace
\* removed, whatever else the text contains.
C3_Original ==
    (pc = "Extracted" /\ NoAssistantStart(decoded)) =>
        (~response.isNone /\ IsTrimOf(response.text, decoded))

\* C3 amended: for a decoded text with neither the assistant-start marker nor
\* the end marker "<|im_end|>" the extraction returns the text with only its
\* leading and trailing whitespace removed.
C3_Theorem ==
    (pc = "Extracted" /\ NoAssistantStart(decoded) /\ NoEndMarker(decoded)) =>
        (~response.isNone /\ IsTrimOf(response.text, decoded))

C3_Witness ==
    /\ pc = "Extracted"
    /\ NoAssistantStart(decoded)
    /\ NoEndMarker(decoded)
    /\ Contains(decoded, <<IM_END_OPEN>>)
    /\ Contains(decoded, <<IM_START>>)
    /\ decoded[1] \in Whitespace
    /\ response.text # <<>>
    /\ Len(response.text) < Len(decoded)

\* C4: an interactive turn whose response is displayed leaves the Conversation
\* equal to the one before the turn followed by the user Turn of the input and
\* the assistant Turn of the displayed response, in that order, two Turns
\* longer; from the empty Conversation, "hi" answered by "hello" gives
\* [user "hi", assistant "hello"].
C4_Theorem ==
    [][(pc = "Generating" /\ mode = "interactive" /\ out'.kind = "assistant") =>
          /\ conversation_history' =
                 conversation_history \o
                     <<[role |-> "user", content |-> user_input],
                       [role |-> "assistant", content |-> out'.text]>>
          /\ Len(conversation_history') = Len(conversation_history) + 2
          /\ (conversation_history = <<>> /\ user_input = <<"hi">>
                  /\ out'.text = <<"hello">>) =>
                 conversation_history' =
                     <<[role |-> "user", content |-> <<"hi">>],
                       [role |-> "assistant", content |-> <<"hello">>]>>]_vars

C4_Witness ==
    /\ event = "gen_return"
    /\ out = Message("assistant", <<"hello">>)
    /\ conversation_history =
           <<[role |-> "user", content |-> <<"hi">>],
             [role |-> "assistant", content |-> <<"hello">>]>>

\* the line just read is the clear command
ClearCommand == pc = "AwaitingInput" /\ event' = "line" /\ Lower(user_input') = <<"clear">>

\* C5: the clear command leaves the Conversation of length 0 whatever it was,
\* with the controller in AwaitingInput and no provider call made, and every
\* prompt rendered afterwards is built from the Conversation of that moment
\* alone, so it holds no Turn from before the clear.
C5_Theorem ==
    /\ [][ClearCommand =>
             /\ Len(conversation_history') = 0
             /\ pc' = "AwaitingInput"
             /\ genCalls' = genCalls
             /\ UNCHANGED <<full_prompt, formatted_prompt>>]_vars
    /\ [][(pc = "AwaitingInput" /\ pc' = "Generating") =>
             /\ full_prompt' = ExpectedPrompt(conversation_history, user_input')
             /\ conversation_history = <<>> =>
                    full_prompt' = Wrapped("user", user_input') \o <<IM_START, "assistant", NL>>]_vars

C5_Witness ==
    /\ pc = "Generating"
    /\ mode = "interactive"
    /\ Truthy(response)
    /\ conversation_history = <<>>
    /\ full_prompt = Wrapped("user", user_input) \o <<IM_START, "assistant", NL>>

\* C6: a failed generate call of the interactive loop never terminates it:
\* after the failure the controller is in AwaitingInput, whatever turns,
\* failures and clears came before, and the next line of input is accepted.
C6_Theorem ==
    (event = "gen_raise" /\ mode = "interactive") =>
        /\ pc = "AwaitingInput"
        /\ out.kind = "failed"
        /\ ENABLED (\E line \in InputLines : ReadLine(line))

C6_Witness ==
    /\ event = "gen_raise"
    /\ mode = "interactive"
    /\ pc = "AwaitingInput"
    /\ genCalls >= 3
    /\ conversation_history # <<>>

\* the text C7 describes for a decoded text t holding the assistant-start marker
AfterLastMarker(t) ==
    SubSeq(t, Max(Occurrences(t, <<IM_START, "assistant", NL>>)) + 3, Len(t))

CutAtEndMarker(t) ==
    IF NoEndMarker(t) THEN t
    ELSE SubSeq(t, 1, Min(Occurrences(t, <<IM_END_OPEN, GT>>)) - 1)

\* C7: for a decoded text holding the assistant-start marker the extraction
\* returns what follows the last occurrence of the marker, cut at the first end
\* marker "<|im_end|>" after it when there is one, with leading and trailing
\* whitespace removed; a text ending in the marker, "Hello there" and the end
\* marker gives "Hello there".
C7_Claim ==
    (pc = "Extracted" /\ ~NoAssistantStart(decoded)) =>
        /\ ~response.isNone
        /\ IsTrimOf(response.text, CutAtEndMarker(AfterLastMarker(decoded)))
        /\ decoded = HelloThere => response.text = <<"Hello", SP, "there">>

\* in p the last assistant-start marker ends the text and every earlier one is
\* followed by an end marker before the next assistant-start marker
OneOpenMarkerLast(p) ==
    LET starts == Occurrences(p, <<IM_START, "assistant", NL>>)
        ends == Occurrences(p, <<IM_END_OPEN, GT>>)
    IN  /\ starts # {}
        /\ Max(starts) + 2 = Len(p)
        /\ \A i \in starts \ {Max(starts)} :
               \E j \in ends : j > i /\ \A k \in starts : k > i => j < k
        /\ \A j \in ends : j < Max(starts)

\* C8: for a non-empty Conversation and any new user message, the prompt
\* handed to the provider (and the rendered prompt it is made from) ends with
\* the assistant-start marker, and that last marker is the only assistant-start
\* marker with no end marker after it.
C8_Theorem ==
    (pc = "Generating" /\ mode = "interactive" /\ conversation_history # <<>>) =>
        /\ OneOpenMarkerLast(formatted_prompt)
        /\ OneOpenMarkerLast(full_prompt)

C8_Witness ==
    /\ pc = "Generating"
    /\ mode = "interactive"
    /\ Len(conversation_history) >= 4
    /\ Cardinality(Occurrences(formatted_prompt, <<IM_START, "assistant", NL>>)) >= 4

\* C9: an interrupt in any non-terminated state of the interactive loop,
\* reading input or generating, takes the controller to Terminated with the
\* farewell message; no provider call is made and no Turn is appended by it
\* or after it.
C9_Theorem ==
    /\ [][(pc \in {"AwaitingInput", "Generating"} /\ mode = "interactive"
              /\ event' = "interrupt") =>
             /\ pc' = "Terminated"
             /\ out'.kind = "goodbye"
             /\ UNCHANGED <<conversation_history, genCalls>>]_vars
    /\ [][pc = "Terminated" => UNCHANGED <<pc, conversation_history, genCalls>>]_vars

C9_Witness ==
    /\ event = "interrupt"
    /\ mode = "interactive"
    /\ pc = "Terminated"
    /\ out.kind = "goodbye"
    /\ full_prompt # <<>>
    /\ response = None
    /\ genCalls = 1

\* C10: when the load fails the program has terminated with one load attempt,
\* no generate call and no generation mode entered, whatever the flags.
C10_Theorem ==
    /\ loads <= 1
    /\ event = "load_fail" =>
           /\ pc = "Terminated"
           /\ loads = 1
           /\ genCalls = 0
           /\ mode = "none"
           /\ out.kind = "load_error"

C10_Witness ==
    /\ event = "load_fail"
    /\ Truthy(args.prompt)
    /\ args.interactive
    /\ pc = "Terminated"

\* load_model returned the handles and main went on to dispatch
LoadSucceeded == loads = 1 /\ event # "load_fail"

\* C11: whenever --prompt is given with any text (with or without
\* --interactive) and the load succeeds, the program is in single-shot mode:
\* it makes exactly one generate call, reports the response or the failure and
\* terminates, and never enters the interactive loop.
C11_Claim ==
    (~args.prompt.isNone /\ LoadSucceeded) =>
        /\ mode = "single"
        /\ genCalls = 1
        /\ pc \in {"Generating", "Terminated"}
        /\ (pc = "Terminated" /\ event # "interrupt") => out.kind \in {"response", "failed"}

NoFlags == args.prompt.isNone /\ ~args.interactive

\* C12 as stated: a run with neither --prompt nor --interactive prints the
\* usage examples and exits without a generate call, whatever the outcome of
\* the load.
C12_Original ==
    (NoFlags /\ loads = 1) =>
        /\ pc = "Terminated"
        /\ out.kind = "usage"
        /\ genCalls = 0

\* C12 amended: a run with neither --prompt nor --interactive never makes a
\* generate call and never enters a generation mode; when the load succeeds it
\* prints the usage examples and exits, and when the load fails it exits
\* after the load error without printing them.
C12_Theorem ==
    NoFlags =>
        /\ genCalls = 0
        /\ mode = "none"
        /\ pc \in {"main", "Terminated"}
        /\ event = "load_ok" => (pc = "Terminated" /\ out.kind = "usage")
        /\ event = "load_fail" => (pc = "Terminated" /\ out.kind = "load_error")

C12_Witness ==
    /\ NoFlags
    /\ event = "load_ok"
    /\ pc = "Terminated"
    /\ out.kind = "usage"

\* the roles of H are user, assistant, user, assistant, ...
Alternates(H) ==
    \A i \in 1..Len(H) : H[i].role = IF i % 2 = 1 THEN "user" ELSE "assistant"

\* C13: whenever the interactive controller is in AwaitingInput the
\* Conversation has an even number of Turns whose roles alternate user,
\* assistant, ... starting with user.
C13_Theorem ==
    (pc = "AwaitingInput") =>
        /\ Len(conversation_history) % 2 = 0
        /\ Alternates(conversation_history)

C13_Witness ==
    /\ pc = "AwaitingInput"
    /\ event = "gen_raise"
    /\ Len(conversation_history) = 4
    /\ genCalls = 3

\* C14: in interactive mode every generate call that returns text without a
\* failure is a success whatever the text: the extracted response is displayed
\* and an assistant Turn carrying it is appended; the failure message is
\* printed only when the provider failed.
C14_Claim ==
    [][(pc = "Generating" /\ mode = "interactive" /\ event' = "gen_return") =>
          /\ out' = [kind |-> "assistant", text |-> response'.text]
          /\ Len(conversation_history') = Len(conversation_history) + 2
          /\ conversation_history'[Len(conversation_history')] =
                 [role |-> "assistant", content |-> response'.text]]_vars

AllWhitespace(l) == \A i \in 1..Len(l) : l[i] \in Whitespace

\* what an input that is a no-op leaves alone
NoOp == UNCHANGED <<pc, conversation_history, full_prompt, formatted_prompt,
                    genCalls, decoded, response, out>>

\* C15: in interactive mode an empty input, also one of whitespace only, is a
\* no-op: the Conversation is unchanged, no prompt is rendered, no provider
\* call is made and the controller stays in AwaitingInput.
C15_Theorem ==
    /\ [][(pc = "AwaitingInput" /\ event' = "line" /\ user_input' = <<>>) =>
             (NoOp /\ pc' = "AwaitingInput")]_vars
    /\ [][\A l \in InputLines : (AllWhitespace(l) /\ ReadLine(l)) =>
             (NoOp /\ pc' = "AwaitingInput")]_vars

C15_Witness ==
    /\ pc = "AwaitingInput"
    /\ event = "line"
    /\ user_input = <<>>
    /\ Len(conversation_history) = 2
    /\ out.kind = "assistant"

IsPrefix(a, b) == Len(a) <= Len(b) /\ SubSeq(b, 1, Len(a)) = a

\* C16: across every step other than the clear command the Conversation
\* before the step is a prefix of the Conversation after it; the clear command
\* is the only step that shrinks the Conversation.
C16_Theorem ==
    /\ [][ClearCommand \/ IsPrefix(conversation_history, conversation_history')]_vars
    /\ [][Len(conversation_history') < Len(conversation_history) => ClearCommand]_vars

C16_Witness ==
    /\ event = "gen_return"
    /\ Len(conversation_history) = 4
    /\ conversation_history[1].content # conversation_history[3].content
    /\ conversation_history[2].content # conversation_history[4].content

QuitCommand == pc = "AwaitingInput" /\ event' = "line" /\ Lower(user_input') = <<"quit">>

\* C17: the interactive loop reaches Terminated only by the quit command
\* (matched after trimming, in any letter case) or by an interrupt; an end of
\* input on the console read is caught, leaves the Conversation unchanged and
\* the controller in AwaitingInput, where input is read again.
C17_Theorem ==
    /\ [][(mode = "interactive" /\ pc # "Terminated" /\ pc' = "Terminated") =>
             (QuitCommand \/ event' = "interrupt")]_vars
    /\ [][QuitCommand => (pc' = "Terminated" /\ out'.kind = "goodbye")]_vars
    /\ [][ReadLine(<<SP, "QUIT">>) => pc' = "Terminated"]_vars
    /\ [][(pc = "AwaitingInput" /\ event' = "eof") =>
             /\ pc' = "AwaitingInput"
             /\ out'.kind = "error"
             /\ UNCHANGED <<conversation_history, genCalls>>]_vars

C17_Witness ==
    /\ event = "eof"
    /\ pc = "AwaitingInput"
    /\ mode = "interactive"
    /\ Len(conversation_history) = 2

\* C18: every assistant Turn of the Conversation has a non-empty content that
\* holds neither the assistant-start marker nor the end marker "<|im_end|>",
\* whatever text the provider returned.
C18_Theorem ==
    \A i \in 1..Len(conversation_history) :
        conversation_history[i].role = "assistant" =>
            /\ conversation_history[i].content # <<>>
            /\ NoAssistantStart(conversation_history[i].content)
            /\ NoEndMarker(conversation_history[i].content)

C18_Witness ==
    /\ event = "gen_return"
    /\ ~NoEndMarker(decoded)
    /\ ~NoAssistantStart(decoded)
    /\ Len(conversation_history) >= 2
    /\ conversation_history[Len(conversation_history)] =
           [role |-> "assistant", content |-> response.text]

====
